---- MODULE Spec2Model ----
(***************************************************************************)
(* Model of the lazorkit-passkey-demo UI glue:                             *)
(*   - components/TransferForm.tsx  (handleTransfer and the rendered form) *)
(*   - components/ConnectButton.tsx (handleConnect, handleDisconnect and   *)
(*     the rendered button)                                                *)
(*   - lib/config.ts and the Providers wrapper (the endpoints handed to    *)
(*     LazorkitProvider)                                                   *)
(* The wallet SDK (connect, disconnect, sendTransaction) and the           *)
(* @solana/web3.js helpers are the environment: their calls are logged and *)
(* their promises settle through separate actions.                         *)
(*                                                                         *)
(* A handler's synchronous section runs without interleaving (JavaScript   *)
(* run-to-completion): while tpc is not "idle" no other action is enabled. *)
(* A handler suspended at an await is an element of a pending set.         *)
(***************************************************************************)
EXTENDS Integers, Sequences, FiniteSets, TLC

\* ------------------------------------------------------------------ bounds
\* the number of button clicks (handler invocations) in a behaviour
MaxRuns == 4

\* ------------------------------------------------------- program constants
LAMPORTS_PER_SOL == 1000000000
PUBLIC_KEY_LENGTH == 32

NULL == "<null>"

\* a JavaScript number: NaN, or the exact decimal num / den
NaN == [nan |-> TRUE, num |-> 0, den |-> 1]
Number(n, d) == [nan |-> FALSE, num |-> n, den |-> d]

\* ----------------------------------------------------------------- strings
\* String.prototype.startsWith
StartsWith(s, p) ==
    /\ Len(p) <= Len(s)
    /\ SubSeq(s, 1, Len(p)) = p

\* String.prototype.includes, as used by the status box (TransferForm.tsx:105-106)
Includes(s, n) ==
    \E i \in 1..(Len(s) + 1) :
        /\ i + Len(n) - 1 <= Len(s)
        /\ SubSeq(s, i, i + Len(n) - 1) = n

CharAt(s, i) == SubSeq(s, i, i)

\* JavaScript truthiness of a string-or-null value (`x && ...`, `!x`)
Truthy(x) == x # NULL /\ x # ""

\* ---------------------------------------------------- values thrown / Error
Error(m) == [isError |-> TRUE, message |-> m]
NonError(v) == [isError |-> FALSE, message |-> v]

\* -------------------------------------------------- new PublicKey(recipient)
BASE58 == "123456789ABCDEFGHJKLMNPQRSTUVWXYZabcdefghijkmnopqrstuvwxyz"

IsBase58Char(c) == \E i \in 1..Len(BASE58) : CharAt(BASE58, i) = c

Base58Index(c) == (CHOOSE i \in 1..Len(BASE58) : CharAt(BASE58, i) = c) - 1

\* the number of '1' characters at the front of s
LeadingOnes(s) ==
    Cardinality({k \in 1..Len(s) : \A j \in 1..k : CharAt(s, j) = "1"})

\* the base-58 number spelled by the first n characters of s
RECURSIVE Base58ValueUpTo(_, _)
Base58ValueUpTo(s, n) ==
    IF n = 0 THEN 0
    ELSE Base58ValueUpTo(s, n - 1) * 58 + Base58Index(CharAt(s, n))

Base58Value(s) == Base58ValueUpTo(s, Len(s))

RECURSIVE BigEndianBytes(_)
BigEndianBytes(n) ==
    IF n = 0 THEN << >>
    ELSE Append(BigEndianBytes(n \div 256), n % 256)

Zeros(n) == [i \in 1..n |-> 0]

\* bs58.decode: one zero byte per leading '1', then the big-endian bytes of the
\* base-58 number the remaining characters spell.
Base58Decode(s) ==
    LET z == LeadingOnes(s)
    IN  Zeros(z) \o BigEndianBytes(Base58Value(SubSeq(s, z + 1, Len(s))))

\* new PublicKey(value: string): the decoded bytes, or the Error it throws.
PublicKeyCtor(s) ==
    IF \E i \in 1..Len(s) : ~IsBase58Char(CharAt(s, i))
    THEN [ok |-> FALSE, error |-> Error("Non-base58 character")]
    ELSE IF Len(Base58Decode(s)) # PUBLIC_KEY_LENGTH
    THEN [ok |-> FALSE, error |-> Error("Invalid public key input")]
    ELSE [ok |-> TRUE, key |-> Base58Decode(s)]

IsValidPublicKey(s) == PublicKeyCtor(s).ok

\* --------------------------------------------------------- parseFloat(amount)
IsDigit(c) == \E i \in 1..10 : CharAt("0123456789", i) = c

DigitValue(c) == (CHOOSE i \in 1..10 : CharAt("0123456789", i) = c) - 1

\* the number of decimal digits of s from position i on
DigitsFrom(s, i) ==
    Cardinality({k \in i..Len(s) : \A j \in i..k : IsDigit(CharAt(s, j))})

\* the decimal number spelled by the n digits of s from position i on
RECURSIVE DecimalAt(_, _, _)
DecimalAt(s, i, n) ==
    IF n = 0 THEN 0
    ELSE DecimalAt(s, i, n - 1) * 10 + DigitValue(CharAt(s, i + n - 1))

RECURSIVE Pow10(_)
Pow10(k) == IF k = 0 THEN 1 ELSE 10 * Pow10(k - 1)

\* parseFloat: an optional sign, digits, an optional fraction; the longest such
\* prefix is the number, and NaN when there is none. The number is the exact
\* decimal num / den (exponents are not in the inputs of this model).
ParseFloat(s) ==
    LET neg == Len(s) > 0 /\ CharAt(s, 1) = "-"
        start == IF neg THEN 2 ELSE 1
        ni == DigitsFrom(s, start)
        dot == start + ni
        nf == IF dot <= Len(s) /\ CharAt(s, dot) = "."
              THEN DigitsFrom(s, dot + 1)
              ELSE 0
    IN  IF ni = 0 /\ nf = 0
        THEN NaN
        ELSE Number((IF neg THEN -1 ELSE 1)
                      * (DecimalAt(s, start, ni) * Pow10(nf) + DecimalAt(s, dot + 1, nf)),
                    Pow10(nf))

\* mutant: the amount in SOL passed on as lamports
Lamports_NoConversion(a) == ParseFloat(a)

\* parseFloat(amount) * LAMPORTS_PER_SOL (TransferForm.tsx:28); NaN stays NaN.
\* The amounts of this model are doubles whose product with LAMPORTS_PER_SOL
\* is exact, so the product is the integer computed here.
Lamports(a) ==
    LET x == ParseFloat(a)
    IN  IF x.nan THEN NaN ELSE Number(x.num * (LAMPORTS_PER_SOL \div x.den), 1)

\* SystemProgram.transfer({fromPubkey, toPubkey, lamports}) (TransferForm.tsx:32-36)
SystemProgramTransfer(from, to, lamports) ==
    [programId |-> "SystemProgram", type |-> "Transfer",
     fromPubkey |-> from, toPubkey |-> to, lamports |-> lamports]

\* Whether the library's instruction encoder throws for this lamports value:
\* BigInt(NaN) throws a RangeError; a negative value is encoded or refused
\* depending on the library build, so both outcomes are possible.
TransferThrows(lamports) ==
    IF lamports.nan THEN {TRUE}
    ELSE IF lamports.num < 0 THEN {TRUE, FALSE}
    ELSE {FALSE}

\* ------------------------------------------------------------ lib/config.ts
\* mutant: the nullish operator a ?? b
LogicalOr_Nullish(a, b) == IF a # NULL THEN a ELSE b

\* JavaScript's a || b on string-or-undefined operands
LogicalOr(a, b) == IF Truthy(a) THEN a ELSE b

DefaultRpcUrl == "https://api.devnet.solana.com"
DefaultPortalUrl == "https://portal.lazor.sh"
DefaultPaymasterUrl == "https://kora.devnet.lazorkit.com"

\* export const LAZORKIT_CONFIG = { ... } evaluated in the environment env
LazorkitConfig(env) ==
    [rpcUrl |-> LogicalOr(env.NEXT_PUBLIC_RPC_URL, DefaultRpcUrl),
     portalUrl |-> LogicalOr(env.NEXT_PUBLIC_PORTAL_URL, DefaultPortalUrl),
     paymasterConfig |->
        [paymasterUrl |-> LogicalOr(env.NEXT_PUBLIC_PAYMASTER_URL, DefaultPaymasterUrl)]]

\* the props of <LazorkitProvider ...> in Providers
ProvidersProps(config) ==
    [rpcUrl |-> config.rpcUrl,
     portalUrl |-> config.portalUrl,
     paymasterConfig |-> config.paymasterConfig]

\* LAZORKIT_CONFIG and the props before the module is evaluated
NoConfig ==
    [rpcUrl |-> NULL, portalUrl |-> NULL, paymasterConfig |-> [paymasterUrl |-> NULL]]

\* ------------------------------------------------------------------ inputs
\* what a NEXT_PUBLIC_* variable can hold: unset, set to nothing, set to an
\* endpoint of one's own, set to the literal of another endpoint
EnvValues == {NULL, "", "http://localhost:8899", "https://portal.lazor.sh"}

Environments ==
    [NEXT_PUBLIC_RPC_URL : EnvValues,
     NEXT_PUBLIC_PORTAL_URL : EnvValues,
     NEXT_PUBLIC_PAYMASTER_URL : EnvValues]

\* the demo run without a .env file
NoEnvironment ==
    [NEXT_PUBLIC_RPC_URL |-> NULL,
     NEXT_PUBLIC_PORTAL_URL |-> NULL,
     NEXT_PUBLIC_PAYMASTER_URL |-> NULL]

SystemProgramAddress == "11111111111111111111111111111111"

\* what a user can type in the recipient field
RecipientInputs == {"", SystemProgramAddress, "1111", "0x11"}

\* what <input type="number"> can report as its value
AmountInputs == {"", "0.5", "0", "-1"}

\* what the SDK can resolve sendTransaction with
Signatures == {"sigA", "sigB"}

\* what the SDK can reject a promise with
Rejections ==
    {Error("User cancelled"), Error(""), Error("Expected status Success"),
     NonError("timeout")}

WalletKey == "walletPK"
\* the SDK's wallet object, represented by its smartWallet address
WalletInfo == "SmartWa11etAddr"
RpcConnection == "connection"

\* ------------------------------------------------------------------- state
VARIABLES
    \* TransferForm React state (TransferForm.tsx:9-12)
    recipient, amount, status, loading,
    \* useWallet() of TransferForm (TransferForm.tsx:8)
    publicKey, connection,
    \* useWallet() of ConnectButton (ConnectButton.tsx:19-25)
    isConnected, isConnecting, wallet,
    \* ConnectButton React state (ConnectButton.tsx:27)
    error,
    \* position of the running handleTransfer in its synchronous section
    tpc,
    \* the transaction built by the running handleTransfer (local `transaction`)
    built,
    \* handleTransfer invocations suspended at `await sendTransaction`
    pendingSend,
    \* handleConnect invocations suspended at `await connect()`
    pendingConnect,
    \* the SDK calls made so far, in order
    sendLog, connectCalls, disconnectCalls,
    \* the handler invocations so far
    transferRuns, connectRuns, disconnectRuns,
    \* how the most recently finished handleTransfer / handleConnect /
    \* handleDisconnect ended
    lastTransfer, lastConnect, lastDisconnect,
    \* handlers whose exception escaped to the caller
    uncaught,
    \* process.env as seen by lib/config.ts
    processEnv,
    \* the exported constant of lib/config.ts
    LAZORKIT_CONFIG,
    \* the props Providers hands to LazorkitProvider
    providerProps,
    \* how far the page is set up: "start", "loaded" (lib/config.ts is
    \* evaluated), "rendered" (Providers has rendered)
    boot

vars == <<recipient, amount, status, loading, publicKey, connection,
          isConnected, isConnecting, wallet, error, tpc, built,
          pendingSend, pendingConnect, sendLog, connectCalls, disconnectCalls,
          transferRuns, connectRuns, disconnectRuns,
          lastTransfer, lastConnect, lastDisconnect, uncaught,
          processEnv, LAZORKIT_CONFIG, providerProps, boot>>

formVars == <<recipient, amount, status, loading>>
sdkVars == <<publicKey, connection, isConnected, isConnecting, wallet>>
transferVars == <<tpc, built, pendingSend, sendLog, transferRuns, lastTransfer>>
connectVars == <<error, pendingConnect, connectCalls, disconnectCalls,
                 connectRuns, disconnectRuns, lastConnect, lastDisconnect>>

configVars == <<processEnv, LAZORKIT_CONFIG, providerProps, boot>>

\* the handler invocations so far
Runs == transferRuns + connectRuns + disconnectRuns

NoRun == [kind |-> "none"]
NoTransaction == [programId |-> NULL]

\* the components' state after their first render
ComponentsInit ==
    /\ recipient = ""
    /\ amount = ""
    /\ status = ""
    /\ loading = FALSE
    /\ publicKey = NULL
    /\ connection = NULL
    /\ isConnected = FALSE
    /\ isConnecting = FALSE
    /\ wallet = NULL
    /\ error = NULL
    /\ tpc = "idle"
    /\ built = NoTransaction
    /\ pendingSend = {}
    /\ pendingConnect = 0
    /\ sendLog = << >>
    /\ connectCalls = 0
    /\ disconnectCalls = 0
    /\ transferRuns = 0
    /\ connectRuns = 0
    /\ disconnectRuns = 0
    /\ lastTransfer = NoRun
    /\ lastConnect = NoRun
    /\ lastDisconnect = NoRun
    /\ uncaught = {}

\* the page of the demo as shipped: no environment variable is set, the
\* configuration is evaluated and Providers has rendered
Init ==
    /\ ComponentsInit
    /\ processEnv = NoEnvironment
    /\ LAZORKIT_CONFIG = LazorkitConfig(processEnv)
    /\ providerProps = ProvidersProps(LAZORKIT_CONFIG)
    /\ boot = "rendered"

\* the page before lib/config.ts is evaluated, in any environment
ConfigInit ==
    /\ ComponentsInit
    /\ processEnv \in Environments
    /\ LAZORKIT_CONFIG = NoConfig
    /\ providerProps = NoConfig
    /\ boot = "start"

\* -------------------------------------------------------------- rendering
\* mutant: the form without the early return for a missing publicKey
TransferFormView_NoEarlyReturn ==
    {"recipientInput", "amountInput", "submitButton"}
        \cup (IF Truthy(status) THEN {"statusBox"} ELSE {})

\* TransferForm's returned tree, as the set of elements it renders.
TransferFormView ==
    IF ~Truthy(publicKey)
    THEN {"placeholder"}
    ELSE {"recipientInput", "amountInput", "submitButton"}
            \cup (IF Truthy(status) THEN {"statusBox"} ELSE {})

\* disabled={loading} on both inputs
InputDisabled == loading

\* mutant: the submit button disabled for empty fields only
SubmitDisabled_NoLoading == ~Truthy(recipient) \/ ~Truthy(amount)

\* disabled={loading || !recipient || !amount}
SubmitDisabled == loading \/ ~Truthy(recipient) \/ ~Truthy(amount)

\* the className chosen for the status box
StatusStyle ==
    IF Includes(status, "Success") THEN "green"
    ELSE IF Includes(status, "Error") THEN "red"
    ELSE "blue"

\* String.prototype.slice(0, n) and slice(-n)
SliceHead(s, n) == SubSeq(s, 1, IF n < Len(s) THEN n ELSE Len(s))
SliceTail(s, n) == SubSeq(s, IF Len(s) > n THEN Len(s) - n + 1 ELSE 1, Len(s))

\* {wallet.smartWallet.slice(0, 4)}...{wallet.smartWallet.slice(-4)}
ShortAddress(w) == SliceHead(w, 4) \o "..." \o SliceTail(w, 4)

\* mutant: the connected view chosen by isConnected alone
ConnectButtonView_NoWalletTest ==
    IF isConnected
    THEN {"address", "disconnectButton"}
    ELSE {"connectButton", "hint"}
            \cup (IF Truthy(error) THEN {"connectionFailed"} ELSE {})

\* ConnectButton's returned tree, as the set of elements it renders.
ConnectButtonView ==
    IF isConnected /\ wallet # NULL
    THEN {"address", "disconnectButton"}
    ELSE {"connectButton", "hint"}
            \cup (IF Truthy(error) THEN {"connectionFailed"} ELSE {})

\* disabled={isConnecting}
ConnectDisabled == isConnecting

\* the text of the address line of the connected view
AddressText == IF "address" \in ConnectButtonView THEN ShortAddress(wallet) ELSE NULL

\* ------------------------------------------------------------ bookkeeping
NoThrow == [isError |-> FALSE, message |-> NULL]

\* how a handleTransfer invocation ended: the fields it was clicked with, the
\* sendTransaction calls it made, and what its promise settled with
TransferRun(kind, r, a, calls, sig, thrown) ==
    [kind |-> kind, recipient |-> r, amount |-> a, calls |-> calls,
     signature |-> sig, thrown |-> thrown]

ConnectRun(kind, thrown) == [kind |-> kind, thrown |-> thrown]

\* ------------------------------------------------- TransferForm: user edits
\* onChange={(e) => setRecipient(e.target.value)}
SetRecipient(v) ==
    /\ tpc = "idle"
    /\ "recipientInput" \in TransferFormView
    /\ ~InputDisabled
    /\ v # recipient
    /\ recipient' = v
    /\ UNCHANGED <<amount, status, loading, sdkVars, transferVars, connectVars, uncaught, configVars>>

\* onChange={(e) => setAmount(e.target.value)}
SetAmount(v) ==
    /\ tpc = "idle"
    /\ "amountInput" \in TransferFormView
    /\ ~InputDisabled
    /\ v # amount
    /\ amount' = v
    /\ UNCHANGED <<recipient, status, loading, sdkVars, transferVars, connectVars, uncaught, configVars>>

\* ------------------------------------------------ TransferForm.handleTransfer
\* mutant: the success message without the signature of the call
SuccessStatus_NoSignature(signature) == "Success! Transaction: "

\* `Success! Transaction: ${signature}`
SuccessStatus(signature) == "Success! Transaction: " \o signature

\* mutant: the message of the thrown value without the instanceof test
ErrorStatus_NoInstanceof(e) == "Error: " \o e.message

\* `Error: ${error instanceof Error ? error.message : "Unknown error"}`
ErrorStatus(e) == "Error: " \o (IF e.isError THEN e.message ELSE "Unknown error")

\* the arguments of the sendTransaction call
SendArgs(transaction, conn) == [transaction |-> transaction, connection |-> conn]

\* mutant: setLoading(false) at the end of the try block instead of in finally
CatchInBuild_NoFinally(e) ==
    /\ status' = "Error: " \o (IF e.isError THEN e.message ELSE "Unknown error")
    /\ tpc' = "idle"
    /\ built' = NoTransaction
    /\ lastTransfer' = TransferRun("threw", recipient, amount, 0, NULL, e)
    /\ UNCHANGED <<recipient, amount, loading, pendingSend, sendLog, transferRuns>>

\* catch (error) { setStatus(...) } finally { setLoading(false) }, reached from
\* the synchronous section of the handler
CatchInBuild(e) ==
    /\ status' = ErrorStatus(e)
    /\ loading' = FALSE
    /\ tpc' = "idle"
    /\ built' = NoTransaction
    /\ lastTransfer' = TransferRun("threw", recipient, amount, 0, NULL, e)
    /\ UNCHANGED <<recipient, amount, pendingSend, sendLog, transferRuns>>

\* mutant: the handler without setLoading(true)
HandleTransferEnter_NoLoading ==
    /\ transferRuns' = transferRuns + 1
    /\ IF ~Truthy(publicKey) \/ ~Truthy(connection)
       THEN /\ status' = "Please connect your wallet first"
            /\ lastTransfer' = TransferRun("guard", recipient, amount, 0, NULL, NoThrow)
            /\ UNCHANGED <<loading, tpc>>
       ELSE /\ status' = "Creating transaction..."
            /\ tpc' = "creating"
            /\ lastTransfer' = NoRun
            /\ UNCHANGED loading
    /\ UNCHANGED <<recipient, amount, built, pendingSend, sendLog,
                   sdkVars, connectVars, uncaught, configVars>>

\* mutant: the wallet guard without the connection test
HandleTransferEnter_NoConnectionTest ==
    /\ transferRuns' = transferRuns + 1
    /\ IF ~Truthy(publicKey)
       THEN /\ status' = "Please connect your wallet first"
            /\ lastTransfer' = TransferRun("guard", recipient, amount, 0, NULL, NoThrow)
            /\ UNCHANGED <<loading, tpc>>
       ELSE /\ loading' = TRUE
            /\ status' = "Creating transaction..."
            /\ tpc' = "creating"
            /\ lastTransfer' = NoRun
    /\ UNCHANGED <<recipient, amount, built, pendingSend, sendLog,
                   sdkVars, connectVars, uncaught, configVars>>

\* lines 14-22: the wallet guard, then setLoading(true) and the first status
HandleTransferEnter ==
    /\ transferRuns' = transferRuns + 1
    /\ IF ~Truthy(publicKey) \/ ~Truthy(connection)
       THEN /\ status' = "Please connect your wallet first"
            /\ lastTransfer' = TransferRun("guard", recipient, amount, 0, NULL, NoThrow)
            /\ UNCHANGED <<loading, tpc>>
       ELSE /\ loading' = TRUE
            /\ status' = "Creating transaction..."
            /\ tpc' = "creating"
            /\ lastTransfer' = NoRun
    /\ UNCHANGED <<recipient, amount, built, pendingSend, sendLog,
                   sdkVars, connectVars, uncaught, configVars>>

\* lines 24-39: validate the recipient, convert the amount, build the transfer
HandleTransferBuild ==
    /\ tpc = "creating"
    /\ LET recipientPubkey == PublicKeyCtor(recipient)
           lamports == Lamports(amount)
       IN  IF ~recipientPubkey.ok
           THEN CatchInBuild(recipientPubkey.error)
           ELSE \E throws \in TransferThrows(lamports) :
                   IF throws
                   THEN CatchInBuild(Error("RangeError: lamports"))
                   ELSE /\ built' = SystemProgramTransfer(publicKey, recipientPubkey.key,
                                                          lamports)
                        /\ status' = "Sending transaction..."
                        /\ tpc' = "sending"
                        /\ UNCHANGED <<recipient, amount, loading, pendingSend, sendLog,
                                       transferRuns, lastTransfer>>
    /\ UNCHANGED <<sdkVars, connectVars, uncaught, configVars>>

\* line 42: the call of sendTransaction(transaction, connection); the handler
\* is suspended at the await
HandleTransferSend ==
    /\ tpc = "sending"
    /\ sendLog' = Append(sendLog, SendArgs(built, connection))
    /\ pendingSend' = pendingSend \cup
            {[id |-> Len(sendLog) + 1, recipient |-> recipient, amount |-> amount]}
    /\ tpc' = "idle"
    /\ built' = NoTransaction
    /\ UNCHANGED <<formVars, transferRuns, lastTransfer, sdkVars, connectVars, uncaught, configVars>>

\* mutant: the success path without the form reset
SendResolved_NoReset(p, signature) ==
    /\ status' = "Success! Transaction: " \o signature
    /\ loading' = FALSE
    /\ pendingSend' = pendingSend \ {p}
    /\ lastTransfer' = TransferRun("resolved", p.recipient, p.amount, 1, signature, NoThrow)
    /\ UNCHANGED <<recipient, amount, tpc, built, sendLog, transferRuns,
                   sdkVars, connectVars, uncaught, configVars>>

\* lines 44-48 and 53: the promise resolved with a signature
SendResolved(p, signature) ==
    /\ status' = SuccessStatus(signature)
    /\ recipient' = ""
    /\ amount' = ""
    /\ loading' = FALSE
    /\ pendingSend' = pendingSend \ {p}
    /\ lastTransfer' = TransferRun("resolved", p.recipient, p.amount, 1, signature, NoThrow)
    /\ UNCHANGED <<tpc, built, sendLog, transferRuns, sdkVars, connectVars, uncaught, configVars>>

\* mutant: a rejected call is issued again from the catch block
SendRejected_Retry(p, e) ==
    /\ status' = "Sending transaction..."
    /\ sendLog' = Append(sendLog, sendLog[p.id])
    /\ pendingSend' = (pendingSend \ {p}) \cup
            {[id |-> Len(sendLog) + 1, recipient |-> p.recipient, amount |-> p.amount]}
    /\ UNCHANGED <<recipient, amount, loading, tpc, built, transferRuns, lastTransfer,
                   sdkVars, connectVars, uncaught, configVars>>

\* mutant: the form reset moved into the finally block
SendRejected_ResetFields(p, e) ==
    /\ status' = "Error: " \o (IF e.isError THEN e.message ELSE "Unknown error")
    /\ recipient' = ""
    /\ amount' = ""
    /\ loading' = FALSE
    /\ pendingSend' = pendingSend \ {p}
    /\ lastTransfer' = TransferRun("rejected", p.recipient, p.amount, 1, NULL, e)
    /\ UNCHANGED <<tpc, built, sendLog, transferRuns,
                   sdkVars, connectVars, uncaught, configVars>>

\* lines 49-54: the promise rejected
SendRejected(p, e) ==
    /\ status' = ErrorStatus(e)
    /\ loading' = FALSE
    /\ pendingSend' = pendingSend \ {p}
    /\ lastTransfer' = TransferRun("rejected", p.recipient, p.amount, 1, NULL, e)
    /\ UNCHANGED <<recipient, amount, tpc, built, sendLog, transferRuns,
                   sdkVars, connectVars, uncaught, configVars>>

\* onClick={handleTransfer} on the submit button
ClickSend ==
    /\ tpc = "idle"
    /\ "submitButton" \in TransferFormView
    /\ ~SubmitDisabled
    /\ Runs < MaxRuns
    /\ HandleTransferEnter

\* the SDK settles a pending sendTransaction promise
SendSettles ==
    /\ tpc = "idle"
    /\ \E p \in pendingSend :
          \/ \E signature \in Signatures : SendResolved(p, signature)
          \/ \E e \in Rejections : SendRejected(p, e)

\* ------------------------------------------------------------ ConnectButton
\* err instanceof Error ? err.message : 'Failed to connect wallet'
ConnectErrorMessage(e) == IF e.isError THEN e.message ELSE "Failed to connect wallet"

\* mutant: handleConnect without setError(null)
HandleConnectEnter_NoClear ==
    /\ connectCalls' = connectCalls + 1
    /\ pendingConnect' = pendingConnect + 1
    /\ connectRuns' = connectRuns + 1
    /\ isConnecting' = TRUE
    /\ lastConnect' = NoRun
    /\ UNCHANGED <<formVars, publicKey, connection, isConnected, wallet, transferVars,
                   error, disconnectCalls, disconnectRuns, lastDisconnect, uncaught,
                   configVars>>

\* lines 29-32: setError(null), then the call of connect(); the SDK reports the
\* attempt through isConnecting
HandleConnectEnter ==
    /\ error' = NULL
    /\ connectCalls' = connectCalls + 1
    /\ pendingConnect' = pendingConnect + 1
    /\ connectRuns' = connectRuns + 1
    /\ isConnecting' = TRUE
    /\ lastConnect' = NoRun
    /\ UNCHANGED <<formVars, publicKey, connection, isConnected, wallet, transferVars,
                   disconnectCalls, disconnectRuns, lastDisconnect, uncaught, configVars>>

\* the connect promise resolved: the handler has nothing left to do, the SDK
\* now reports the wallet
ConnectResolved ==
    /\ tpc = "idle"
    /\ pendingConnect > 0
    /\ pendingConnect' = pendingConnect - 1
    /\ isConnecting' = FALSE
    /\ isConnected' = TRUE
    /\ wallet' = WalletInfo
    /\ publicKey' = WalletKey
    /\ \E c \in {NULL, RpcConnection} : connection' = c
    /\ lastConnect' = ConnectRun("resolved", NoThrow)
    /\ UNCHANGED <<formVars, transferVars, error, connectCalls, disconnectCalls,
                   connectRuns, disconnectRuns, lastDisconnect, uncaught, configVars>>

\* lines 33-36: the connect promise rejected
ConnectRejected(e) ==
    /\ tpc = "idle"
    /\ pendingConnect > 0
    /\ pendingConnect' = pendingConnect - 1
    /\ isConnecting' = FALSE
    /\ error' = ConnectErrorMessage(e)
    /\ lastConnect' = ConnectRun("rejected", e)
    /\ UNCHANGED <<formVars, transferVars, publicKey, connection, isConnected, wallet,
                   connectCalls, disconnectCalls, connectRuns, disconnectRuns,
                   lastDisconnect, uncaught, configVars>>

\* mutant: setError(null) moved in front of the disconnect() call
HandleDisconnect_ClearFirst(throws) ==
    /\ disconnectCalls' = disconnectCalls + 1
    /\ disconnectRuns' = disconnectRuns + 1
    /\ error' = NULL
    /\ IF throws
       THEN /\ lastDisconnect' = ConnectRun("threw", Error("disconnect failed"))
            /\ UNCHANGED sdkVars
       ELSE /\ isConnected' = FALSE
            /\ wallet' = NULL
            /\ publicKey' = NULL
            /\ lastDisconnect' = ConnectRun("returned", NoThrow)
            /\ UNCHANGED <<connection, isConnecting>>
    /\ UNCHANGED <<formVars, transferVars, pendingConnect, connectCalls, connectRuns,
                   lastConnect, uncaught, configVars>>

\* lines 39-46: disconnect() either throws synchronously (caught and logged) or
\* returns, after which setError(null) runs and the SDK reports no wallet
HandleDisconnect(throws) ==
    /\ disconnectCalls' = disconnectCalls + 1
    /\ disconnectRuns' = disconnectRuns + 1
    /\ IF throws
       THEN /\ lastDisconnect' = ConnectRun("threw", Error("disconnect failed"))
            /\ UNCHANGED <<error, sdkVars>>
       ELSE /\ error' = NULL
            /\ isConnected' = FALSE
            /\ wallet' = NULL
            /\ publicKey' = NULL
            /\ lastDisconnect' = ConnectRun("returned", NoThrow)
            /\ UNCHANGED <<connection, isConnecting>>
    /\ UNCHANGED <<formVars, transferVars, pendingConnect, connectCalls, connectRuns,
                   lastConnect, uncaught, configVars>>

\* onClick={handleConnect}
ClickConnect ==
    /\ tpc = "idle"
    /\ "connectButton" \in ConnectButtonView
    /\ ~ConnectDisabled
    /\ Runs < MaxRuns
    /\ HandleConnectEnter

\* onClick={handleDisconnect}
ClickDisconnect ==
    /\ tpc = "idle"
    /\ "disconnectButton" \in ConnectButtonView
    /\ Runs < MaxRuns
    /\ \E throws \in BOOLEAN : HandleDisconnect(throws)

\* the SDK rejects a pending connect promise
ConnectFails == \E e \in Rejections : ConnectRejected(e)

\* ------------------------------------------------------------ specification
Next ==
    \/ \E v \in RecipientInputs : SetRecipient(v)
    \/ \E v \in AmountInputs : SetAmount(v)
    \/ ClickSend
    \/ HandleTransferBuild
    \/ HandleTransferSend
    \/ SendSettles
    \/ ClickConnect
    \/ ConnectResolved
    \/ ConnectFails
    \/ ClickDisconnect

Spec == Init /\ [][Next]_vars

\* ConnectButton mounted on whatever useWallet() reports at that moment (a
\* session the SDK restored, a connection the SDK has in progress, a wallet
\* object that is not loaded yet)
ButtonInit ==
    /\ recipient = "" /\ amount = "" /\ status = "" /\ loading = FALSE
    /\ publicKey = NULL /\ connection = NULL
    /\ isConnected \in BOOLEAN
    /\ isConnecting \in BOOLEAN
    /\ wallet \in {NULL, WalletInfo}
    /\ error = NULL
    /\ tpc = "idle" /\ built = NoTransaction /\ pendingSend = {} /\ sendLog = << >>
    /\ pendingConnect = 0 /\ connectCalls = 0 /\ disconnectCalls = 0
    /\ transferRuns = 0 /\ connectRuns = 0 /\ disconnectRuns = 0
    /\ lastTransfer = NoRun /\ lastConnect = NoRun /\ lastDisconnect = NoRun
    /\ uncaught = {}
    /\ processEnv = NoEnvironment
    /\ LAZORKIT_CONFIG = LazorkitConfig(processEnv)
    /\ providerProps = ProvidersProps(LAZORKIT_CONFIG)
    /\ boot = "rendered"

\* the SDK reports a wallet that no handleConnect of this component is waiting
\* for (a stored session restored after mount, a connect made elsewhere)
SessionRestored ==
    /\ tpc = "idle"
    /\ pendingConnect = 0
    /\ ~(isConnected /\ wallet # NULL)
    /\ isConnected' = TRUE
    /\ wallet' = WalletInfo
    /\ publicKey' = WalletKey
    /\ connection' = RpcConnection
    /\ isConnecting' = FALSE
    /\ UNCHANGED <<formVars, transferVars, connectVars, uncaught, configVars>>

\* the events of ConnectButton
ButtonNext ==
    \/ ClickConnect
    \/ ConnectResolved
    \/ ConnectFails
    \/ ClickDisconnect
    \/ SessionRestored

ButtonSpec == ButtonInit /\ [][ButtonNext]_vars

\* ------------------------------------------- configuration and Providers
\* the module lib/config.ts is evaluated on import
LoadConfig ==
    /\ boot = "start"
    /\ LAZORKIT_CONFIG' = LazorkitConfig(processEnv)
    /\ boot' = "loaded"
    /\ UNCHANGED <<formVars, sdkVars, transferVars, connectVars, uncaught,
                   processEnv, providerProps>>

\* Providers renders <LazorkitProvider ...>
RenderProviders ==
    /\ boot = "loaded"
    /\ providerProps' = ProvidersProps(LAZORKIT_CONFIG)
    /\ boot' = "rendered"
    /\ UNCHANGED <<formVars, sdkVars, transferVars, connectVars, uncaught,
                   processEnv, LAZORKIT_CONFIG>>

ConfigNext == LoadConfig \/ RenderProviders

\* the start of the page in every environment
ConfigSpec == ConfigInit /\ [][ConfigNext]_vars

\* a step of a handleTransfer in progress: its synchronous section, or the
\* continuation after its promise settled (at most one of the three is enabled)
TransferProgress == HandleTransferBuild \/ HandleTransferSend \/ SendSettles

\* The event loop runs a started handler to its next await, and an SDK promise
\* that is pending settles.
LiveSpec == Spec /\ WF_vars(TransferProgress)

\* ================================================================== claims

\* C1: a handleTransfer that passed the wallet guard with a recipient that is
\* no valid public key ends in the catch block: the status starts with
\* "Error:", loading is false again, and the invocation never reaches the
\* sendTransaction call (it is neither about to call nor suspended at it).
C1_InvalidRecipientError ==
    /\ (lastTransfer.kind \in {"threw", "resolved", "rejected"}
            /\ ~IsValidPublicKey(lastTransfer.recipient))
        => /\ lastTransfer.kind = "threw"
           /\ StartsWith(status, "Error:")
           /\ ~loading
    /\ tpc = "sending" => IsValidPublicKey(recipient)
    /\ \A p \in pendingSend : IsValidPublicKey(p.recipient)

C1_Witness ==
    /\ lastTransfer.kind = "threw"
    /\ lastTransfer.recipient = "1111"
    /\ status = "Error: Invalid public key input"
    /\ ~loading
    /\ sendLog = << >>

\* C2: when the sendTransaction call of a handleTransfer resolved with the
\* signature s, the status once the handler has finished is exactly
\* "Success! Transaction: s", for the s of that call.
C2_SuccessShowsSignature ==
    lastTransfer.kind = "resolved"
        => status = "Success! Transaction: " \o lastTransfer.signature

C2_Witness ==
    /\ lastTransfer.kind = "resolved"
    /\ Len(sendLog) = 2
    /\ lastTransfer.signature = "sigB"
    /\ status = "Success! Transaction: sigB"

\* C3: while publicKey is absent TransferForm renders the placeholder alone,
\* and no step taken in such a state starts a handleTransfer.
C3_DisconnectedHidesForm ==
    /\ [](~Truthy(publicKey) => TransferFormView = {"placeholder"})
    /\ [][~Truthy(publicKey) => transferRuns' = transferRuns]_vars

C3_Witness ==
    /\ ~Truthy(publicKey)
    /\ Truthy(status)
    /\ Truthy(recipient)
    /\ Truthy(amount)
    /\ ~loading

\* C4: when the sendTransaction promise rejected, the handler has finished with
\* loading false and status "Error: m" for an Error with message m, and
\* "Error: Unknown error" for any other value; nothing escaped the handler.
C4_RejectionShown ==
    lastTransfer.kind = "rejected"
        => /\ ~loading
           /\ status = (IF lastTransfer.thrown.isError
                        THEN "Error: " \o lastTransfer.thrown.message
                        ELSE "Error: Unknown error")
           /\ "handleTransfer" \notin uncaught

C4_Witness ==
    /\ lastTransfer.kind = "rejected"
    /\ ~lastTransfer.thrown.isError
    /\ status = "Error: Unknown error"

C6_OneCallPerAction ==
    /\ Len(sendLog) <= transferRuns
    /\ connectCalls = connectRuns
    /\ disconnectCalls = disconnectRuns

C6_Witness ==
    /\ lastTransfer.kind = "rejected"
    /\ lastConnect.kind = "resolved"
    /\ connectRuns = 2
    /\ lastDisconnect.kind = "returned"
    /\ Len(sendLog) = 1

\* C7: a handleTransfer past the wallet guard has loading true and status
\* "Creating transaction..."; sendTransaction is called only from a state with
\* loading true and status "Sending transaction..."; a finished handler leaves
\* loading false and a status that is a "Success! ..." or an "Error: ..."
\* message; and, the SDK promise settling, a handler in progress finishes.
C7_Lifecycle ==
    /\ [](tpc = "creating" => loading /\ status = "Creating transaction...")
    /\ [][Len(sendLog') > Len(sendLog)
            => loading /\ status = "Sending transaction..."]_vars
    /\ [](lastTransfer.kind \in {"threw", "resolved", "rejected"}
            => /\ ~loading
               /\ StartsWith(status, "Success! ") \/ StartsWith(status, "Error: "))
    /\ (loading ~> lastTransfer.kind \in {"threw", "resolved", "rejected"})

C7_Witness ==
    /\ lastTransfer.kind = "resolved"
    /\ StartsWith(status, "Success! ")
    /\ ~loading
    /\ transferRuns = 2

\* C8: every sendTransaction call of the transfer form carries a fee-token
\* option.
C8_FeeTokenOption ==
    \A i \in 1..Len(sendLog) :
        /\ "transactionOptions" \in DOMAIN sendLog[i]
        /\ "feeToken" \in DOMAIN sendLog[i].transactionOptions

\* C9 as stated, for the submissions that reached the SDK: whenever a
\* handleTransfer finishes after its sendTransaction call settled, resolved or
\* rejected, recipient and amount are both the empty string.
C9_FieldsDiscardedOnSubmission ==
    [][(lastTransfer' # lastTransfer
            /\ lastTransfer'.kind \in {"resolved", "rejected"})
            => recipient' = "" /\ amount' = ""]_vars

\* C9 amended: whenever a handleTransfer finishes after its sendTransaction
\* call resolved, recipient and amount are both the empty string.
C9_FieldsResetOnSuccess ==
    [][(lastTransfer' # lastTransfer /\ lastTransfer'.kind = "resolved")
            => recipient' = "" /\ amount' = ""]_vars

C9_Witness ==
    /\ lastTransfer.kind = "resolved"
    /\ lastTransfer.recipient = SystemProgramAddress
    /\ lastTransfer.amount = "0.5"
    /\ recipient = ""
    /\ amount = ""

\* C10: a transfer whose amount parses to NaN or to a value <= 0 is rejected
\* before the SDK call: no sendTransaction call carries such an amount, and a
\* handler about to call sendTransaction was not clicked with one.
C10_InvalidAmountRejected ==
    /\ \A i \in 1..Len(sendLog) :
            /\ ~sendLog[i].transaction.lamports.nan
            /\ sendLog[i].transaction.lamports.num > 0
    /\ tpc = "sending"
        => ~Lamports(amount).nan /\ Lamports(amount).num > 0

\* C11 (as stated): once lib/config.ts is evaluated, an endpoint whose
\* environment variable is set (to anything, the empty string included) equals
\* that value, an endpoint whose variable is unset equals its fallback literal,
\* and Providers hands exactly these values to LazorkitProvider.
C11_EnvWhenSet ==
    /\ boot \in {"loaded", "rendered"} =>
        /\ LAZORKIT_CONFIG.rpcUrl =
              (IF processEnv.NEXT_PUBLIC_RPC_URL # NULL
               THEN processEnv.NEXT_PUBLIC_RPC_URL
               ELSE "https://api.devnet.solana.com")
        /\ LAZORKIT_CONFIG.portalUrl =
              (IF processEnv.NEXT_PUBLIC_PORTAL_URL # NULL
               THEN processEnv.NEXT_PUBLIC_PORTAL_URL
               ELSE "https://portal.lazor.sh")
        /\ LAZORKIT_CONFIG.paymasterConfig.paymasterUrl =
              (IF processEnv.NEXT_PUBLIC_PAYMASTER_URL # NULL
               THEN processEnv.NEXT_PUBLIC_PAYMASTER_URL
               ELSE "https://kora.devnet.lazorkit.com")
    /\ boot = "rendered" =>
        /\ providerProps.rpcUrl = LAZORKIT_CONFIG.rpcUrl
        /\ providerProps.portalUrl = LAZORKIT_CONFIG.portalUrl
        /\ providerProps.paymasterConfig = LAZORKIT_CONFIG.paymasterConfig

\* C11 (amended): once lib/config.ts is evaluated, an endpoint whose
\* environment variable is set to a non-empty value equals that value, an
\* endpoint whose variable is unset or empty equals its fallback literal, each
\* endpoint depends on its own variable only, and Providers hands exactly
\* these values to LazorkitProvider.
C11_EnvWhenNonEmpty ==
    /\ boot \in {"loaded", "rendered"} =>
        /\ LAZORKIT_CONFIG.rpcUrl =
              (IF processEnv.NEXT_PUBLIC_RPC_URL \notin {NULL, ""}
               THEN processEnv.NEXT_PUBLIC_RPC_URL
               ELSE "https://api.devnet.solana.com")
        /\ LAZORKIT_CONFIG.portalUrl =
              (IF processEnv.NEXT_PUBLIC_PORTAL_URL \notin {NULL, ""}
               THEN processEnv.NEXT_PUBLIC_PORTAL_URL
               ELSE "https://portal.lazor.sh")
        /\ LAZORKIT_CONFIG.paymasterConfig.paymasterUrl =
              (IF processEnv.NEXT_PUBLIC_PAYMASTER_URL \notin {NULL, ""}
               THEN processEnv.NEXT_PUBLIC_PAYMASTER_URL
               ELSE "https://kora.devnet.lazorkit.com")
    /\ boot = "rendered" =>
        /\ providerProps.rpcUrl = LAZORKIT_CONFIG.rpcUrl
        /\ providerProps.portalUrl = LAZORKIT_CONFIG.portalUrl
        /\ providerProps.paymasterConfig = LAZORKIT_CONFIG.paymasterConfig

\* one variable set to another endpoint's literal, one unset, one empty
C11_Witness ==
    /\ boot = "rendered"
    /\ processEnv.NEXT_PUBLIC_RPC_URL = "https://portal.lazor.sh"
    /\ processEnv.NEXT_PUBLIC_PORTAL_URL = NULL
    /\ processEnv.NEXT_PUBLIC_PAYMASTER_URL = ""
    /\ providerProps.rpcUrl = "https://portal.lazor.sh"
    /\ providerProps.portalUrl = "https://portal.lazor.sh"
    /\ providerProps.paymasterConfig.paymasterUrl = "https://kora.devnet.lazorkit.com"

\* C12: ConnectButton shows the connected view (the shortened smart-wallet
\* address and the disconnect button) exactly when isConnected is true and
\* wallet is present, and the connect button otherwise; the connect button is
\* disabled exactly when isConnecting is true; the two buttons are never both
\* rendered. Accordingly connect() is only called from the disconnected view
\* while isConnecting is false, and disconnect() only from the connected view.
C12_ViewFollowsSdk ==
    /\ []("disconnectButton" \in ConnectButtonView <=> (isConnected /\ wallet # NULL))
    /\ []("address" \in ConnectButtonView <=> (isConnected /\ wallet # NULL))
    /\ []((isConnected /\ wallet # NULL)
            => AddressText = SubSeq(wallet, 1, 4) \o "..."
                                \o SubSeq(wallet, Len(wallet) - 3, Len(wallet)))
    /\ []("connectButton" \in ConnectButtonView <=> ~(isConnected /\ wallet # NULL))
    /\ []("connectButton" \in ConnectButtonView => (ConnectDisabled <=> isConnecting))
    /\ [](~{"connectButton", "disconnectButton"} \subseteq ConnectButtonView)
    /\ [][connectCalls' # connectCalls
            => ~(isConnected /\ wallet # NULL) /\ ~isConnecting]_vars
    /\ [][disconnectCalls' # disconnectCalls => isConnected /\ wallet # NULL]_vars

\* the SDK reports isConnected without a wallet object: the connect button is
\* shown, was clicked, and is disabled while that attempt is in progress
C12_Witness ==
    /\ isConnected
    /\ wallet = NULL
    /\ connectCalls = 1
    /\ isConnecting
    /\ "connectButton" \in ConnectButtonView
    /\ "disconnectButton" \notin ConnectButtonView
    /\ ConnectDisabled

\* C13: a handleTransfer invoked while publicKey or connection is absent sets
\* the status to "Please connect your wallet first" and returns: it makes no
\* sendTransaction call, does not enter the try block, and leaves loading,
\* recipient and amount as they were. Hence every sendTransaction call carries
\* a transaction whose source is a non-null publicKey, and a non-null
\* connection.
C13_WalletGuard ==
    /\ [][(transferRuns' # transferRuns /\ (publicKey = NULL \/ connection = NULL))
            => /\ status' = "Please connect your wallet first"
               /\ loading' = loading
               /\ recipient' = recipient
               /\ amount' = amount
               /\ sendLog' = sendLog
               /\ pendingSend' = pendingSend
               /\ tpc' = "idle"]_vars
    /\ [](lastTransfer.kind = "guard" => lastTransfer.calls = 0)
    /\ [](\A i \in 1..Len(sendLog) :
            /\ sendLog[i].connection # NULL
            /\ sendLog[i].transaction.fromPubkey # NULL)
    /\ [](tpc # "idle" => publicKey # NULL /\ connection # NULL)

\* the submit button clicked with both fields filled while the SDK reports a
\* publicKey but no connection
C13_Witness ==
    /\ lastTransfer.kind = "guard"
    /\ publicKey # NULL
    /\ connection = NULL
    /\ status = "Please connect your wallet first"
    /\ ~loading
    /\ recipient = SystemProgramAddress
    /\ amount = "0.5"
    /\ sendLog = << >>

C15_OneTransferAtATime ==
    /\ [](Cardinality(pendingSend) <= 1)
    /\ []((pendingSend # {} \/ tpc # "idle") => loading)
    /\ [](loading => InputDisabled /\ SubmitDisabled)
    /\ []((recipient = "" \/ amount = "") => SubmitDisabled)
    /\ [][transferRuns' # transferRuns
            => ~loading /\ pendingSend = {} /\ tpc = "idle"]_vars
    /\ [][Len(sendLog') # Len(sendLog) => pendingSend = {}]_vars

\* the second transfer of a session is pending; the form is rendered with both
\* fields filled and everything disabled
C15_Witness ==
    /\ Cardinality(pendingSend) = 1
    /\ Len(sendLog) = 2
    /\ loading
    /\ "submitButton" \in TransferFormView
    /\ recipient # ""
    /\ amount # ""
    /\ SubmitDisabled
    /\ InputDisabled

\* C16: a handleTransfer that ends on the error path (new PublicKey or the
\* instruction builder threw, or sendTransaction rejected) leaves recipient
\* and amount as they were when the handler started; while a transfer is in
\* progress the two fields change only in the continuation of a resolved
\* sendTransaction, which empties them.
C16_FailedTransferKeepsInput ==
    /\ [][(lastTransfer' # lastTransfer /\ lastTransfer'.kind \in {"threw", "rejected"})
            => /\ recipient' = recipient
               /\ amount' = amount
               /\ recipient' = lastTransfer'.recipient
               /\ amount' = lastTransfer'.amount]_vars
    /\ [][(loading /\ (recipient' # recipient \/ amount' # amount))
            => /\ lastTransfer' # lastTransfer
               /\ lastTransfer'.kind = "resolved"
               /\ recipient' = ""
               /\ amount' = ""]_vars

\* the wallet refused to sign: the error is shown above the untouched fields
C16_Witness ==
    /\ lastTransfer.kind = "rejected"
    /\ lastTransfer.thrown = [isError |-> TRUE, message |-> "User cancelled"]
    /\ status = "Error: User cancelled"
    /\ recipient = SystemProgramAddress
    /\ amount = "0.5"
    /\ lastTransfer.recipient = recipient
    /\ lastTransfer.amount = amount

\* C17: the status box is green while it shows the status written by the
\* success path of handleTransfer, and red while it shows a status written by
\* the error path, whatever the message of the thrown error is.
C17_StyleMatchesOutcome ==
    /\ lastTransfer.kind = "resolved" => StatusStyle = "green"
    /\ lastTransfer.kind \in {"threw", "rejected"} => StatusStyle = "red"

\* C18: the error state of ConnectButton reflects the most recent connect
\* attempt only. handleConnect sets error to null when it calls connect; a
\* non-null error is the message of the most recent attempt, which was
\* rejected; after an attempt that succeeded error is null, and it stays null
\* through a following disconnect, so no "Connection Failed" box of an earlier
\* attempt is shown then.
C18_ErrorOfLatestAttempt ==
    /\ [][connectCalls' # connectCalls => error' = NULL]_vars
    /\ [](error # NULL
            => /\ lastConnect.kind = "rejected"
               /\ error = (IF lastConnect.thrown.isError
                           THEN lastConnect.thrown.message
                           ELSE "Failed to connect wallet"))
    /\ [](lastConnect.kind = "resolved"
            => error = NULL /\ "connectionFailed" \notin ConnectButtonView)
    /\ [][(lastConnect.kind = "resolved" /\ disconnectCalls' # disconnectCalls)
            => error' = NULL /\ "connectionFailed" \notin ConnectButtonView']_vars

\* a failed attempt, then a successful one, then a disconnect: the connect
\* button is back without the "Connection Failed" box
C18_Witness ==
    /\ connectRuns = 2
    /\ disconnectRuns = 1
    /\ lastConnect.kind = "resolved"
    /\ lastDisconnect.kind = "returned"
    /\ ~isConnected
    /\ error = NULL
    /\ "connectButton" \in ConnectButtonView
    /\ "connectionFailed" \notin ConnectButtonView

\* C19: handleDisconnect never lets an exception escape. When disconnect()
\* throws synchronously the handler returns with the error state as it was;
\* when disconnect() returns the handler sets the error state to null.
C19_DisconnectSwallows ==
    /\ []("handleDisconnect" \notin uncaught)
    /\ [][disconnectCalls' # disconnectCalls
            => /\ disconnectCalls' = disconnectCalls + 1
               /\ lastDisconnect'.kind \in {"threw", "returned"}
               /\ lastDisconnect'.kind = "threw" => error' = error
               /\ lastDisconnect'.kind = "returned" => error' = NULL]_vars

\* disconnect() threw while the component still held the message of a failed
\* connect attempt: the message is kept
C19_Witness ==
    /\ lastDisconnect.kind = "threw"
    /\ disconnectCalls = 1
    /\ lastConnect.kind = "rejected"
    /\ error = "User cancelled"
    /\ isConnected
    /\ wallet # NULL
    /\ uncaught = {}

====
